---- MODULE Spec2Model ----
(***************************************************************************)
(* girasol: the Model Store (DataActor over a sled database), the process  *)
(* life cycle of main() and the local wait on the shared counter.          *)
(*                                                                         *)
(* src/src/database.rs  the store: insert_obj, query_json, the DbMsg       *)
(*                      handler of DataActor                               *)
(* src/src/main.rs      main(): the subcommands, the ctrlc handler, the    *)
(*                      final Kill                                         *)
(*                                                                         *)
(* The actor runtime (xactor) delivers the events of an actor's mailbox    *)
(* one at a time, in the order they were enqueued; Context::stop enqueues  *)
(* a Stop event on the actor's own mailbox.  The tracer actor (trace.rs)   *)
(* is not among the source files: its iteration is modelled from the       *)
(* specification (ExecIterate, ExecFail).                                  *)
(***************************************************************************)
EXTENDS Integers, Sequences, FiniteSets, TLC

\* ---------------------------------------------------------------- bounds
\* Requests the clients (the connections of an Endpoint process, the CLI
\* subcommands) send over the whole history before only CLI requests go on.
MaxMsgs == 3
\* Largest value of the Local subcommand's round argument.
MaxRound == 3
\* Storage errors injected in one run of the process.
MaxFaults == 1
\* Requests the clients send in a history that starts over a catalog with
\* faults (at most MaxMsgs).
FaultMsgs == 2

\* ------------------------------------------------------------ data model
Names == {"a", "b"}

\* sled iterates a tree in the byte order of its keys.
KeyOrder == <<"a", "b">>

\* enum Frequency { Max, Default, Specific(usize) }
FreqMax == [variant |-> "Max"]
FreqDefault == [variant |-> "Default"]
FreqSpecific(n) == [variant |-> "Specific", n |-> n]

\* enum TraceContent { SystemTap {..}, PerfBranch {..} }
SystemTap(fl, p, ar, en) ==
    [variant |-> "SystemTap", function_list |-> fl, process |-> p, args |-> ar, envs |-> en]
PerfBranch(fr, path, ar) ==
    [variant |-> "PerfBranch", frequency |-> fr, absolute_path |-> path, additional_args |-> ar]

\* struct TraceModel { name, lasting, interval, content }
TraceModel(n, l, i, c) == [name |-> n, lasting |-> l, interval |-> i, content |-> c]

\* impl Default for TraceContent, #[derive(Default)] for TraceModel
DefaultContent == PerfBranch(FreqDefault, "", <<>>)
DefaultModel == TraceModel("", 0, 0, DefaultContent)

\* The definitions the clients send: under "a" three bodies that differ in
\* lasting, in interval and in content (both variants, two frequencies), under
\* "b" one.
Bodies ==
    { <<1, 1, SystemTap(<<"f">>, "p", <<"x">>, << <<"k", "v">> >>)>>,
      <<2, 1, PerfBranch(FreqMax, "/bin/t", <<>>)>>,
      <<3, 2, PerfBranch(FreqSpecific(7), "/bin/t", <<"y">>)>> }
Models ==
    { TraceModel("a", b[1], b[2], b[3]) : b \in Bodies }
        \cup { TraceModel("b", 2, 2, PerfBranch(FreqDefault, "/bin/u", <<>>)) }

\* --------------------------------------------- serde / simd_json encoding
\* Mutant: the tag without the content of the variant.
FrequencyToJsonUntagged(f) == [frequency_mode |-> f.variant]

\* #[serde(tag = "frequency_mode", content = "value")]
FrequencyToJson(f) ==
    IF f.variant = "Specific"
    THEN [frequency_mode |-> "Specific", value |-> f.n]
    ELSE [frequency_mode |-> f.variant]

\* #[serde(tag = "method", content = "content")]
ContentToJson(c) ==
    IF c.variant = "SystemTap"
    THEN [method |-> "SystemTap",
          content |-> [function_list |-> c.function_list, process |-> c.process,
                       args |-> c.args, envs |-> c.envs]]
    ELSE [method |-> "PerfBranch",
          content |-> [frequency |-> FrequencyToJson(c.frequency),
                       absolute_path |-> c.absolute_path,
                       additional_args |-> c.additional_args]]

\* simd_json::to_vec(&content) of a TraceModel
ToVec(m) ==
    [name |-> m.name, lasting |-> m.lasting, interval |-> m.interval,
     content |-> ContentToJson(m.content)]

FrequencyJsonOk(j) ==
    /\ "frequency_mode" \in DOMAIN j
    /\ \/ j.frequency_mode \in {"Max", "Default"}
       \/ j.frequency_mode = "Specific" /\ "value" \in DOMAIN j

FrequencyFromJson(j) ==
    IF j.frequency_mode = "Specific" THEN FreqSpecific(j.value)
    ELSE [variant |-> j.frequency_mode]

ContentJsonOk(j) ==
    /\ {"method", "content"} \subseteq DOMAIN j
    /\ \/ /\ j.method = "SystemTap"
          /\ {"function_list", "process", "args", "envs"} \subseteq DOMAIN j.content
       \/ /\ j.method = "PerfBranch"
          /\ {"frequency", "absolute_path", "additional_args"} \subseteq DOMAIN j.content
          /\ FrequencyJsonOk(j.content.frequency)

ContentFromJson(j) ==
    IF j.method = "SystemTap"
    THEN SystemTap(j.content.function_list, j.content.process, j.content.args,
                   j.content.envs)
    ELSE PerfBranch(FrequencyFromJson(j.content.frequency), j.content.absolute_path,
                    j.content.additional_args)

\* Whether simd_json::from_slice::<TraceModel> accepts the stored value: every
\* field of the struct is present and the tagged unions name a known variant.
JsonOk(j) ==
    /\ {"name", "lasting", "interval", "content"} \subseteq DOMAIN j
    /\ ContentJsonOk(j.content)

\* simd_json::from_slice::<TraceModel> of a value JsonOk accepts
FromSlice(j) ==
    TraceModel(j.name, j.lasting, j.interval, ContentFromJson(j.content))


\* ------------------------------------------------- messages and replies
\* enum DbMsg { QueryAll, Kill, Get(String), Remove(String), Add(TraceModel) }
Msg(kind, name, model) == [kind |-> kind, name |-> name, model |-> model]
QueryAllMsg == Msg("QueryAll", "", DefaultModel)
KillMsg == Msg("Kill", "", DefaultModel)
GetMsg(n) == Msg("Get", n, DefaultModel)
RemoveMsg(n) == Msg("Remove", n, DefaultModel)
AddMsg(m) == Msg("Add", m.name, m)

\* What a connection or a CLI subcommand asks of the store.
ClientMsgs ==
    {QueryAllMsg} \cup {GetMsg(n) : n \in Names} \cup {RemoveMsg(n) : n \in Names}
        \cup {AddMsg(m) : m \in Models}

\* anyhow::Result<DbReply>: enum DbReply { AllList, GetResult, Success } or an
\* error, and what Addr::call returns when the actor is gone (Closed).
Reply(tag, name, model, list) == [tag |-> tag, name |-> name, model |-> model, list |-> list]
NoReply == Reply("None", "", DefaultModel, <<>>)
Closed == Reply("Closed", "", DefaultModel, <<>>)
Success == Reply("Success", "", DefaultModel, <<>>)
GetResult(m) == Reply("GetResult", "", m, <<>>)
AllList(l) == Reply("AllList", "", DefaultModel, l)
\* "{} exists", "key {} not set", "{} does not exist", a serde error, a sled error
ErrExists(n) == Reply("ErrExists", n, DefaultModel, <<>>)
ErrNotSet(n) == Reply("ErrNotSet", n, DefaultModel, <<>>)
ErrNotExist(n) == Reply("ErrNotExist", n, DefaultModel, <<>>)
ErrDecode == Reply("ErrDecode", "", DefaultModel, <<>>)
ErrIo == Reply("ErrIo", "", DefaultModel, <<>>)

\* The Stop event Context::stop puts on the mailbox; the other events are the
\* indices of the DbMsg in msgs.
StopEvent == 0

\* ------------------------------------------------------------------ state
VARIABLES
    sent,         \* requests the clients have sent in this history (at most MaxMsgs)
    faulty,       \* whether sled's reads and writes may return an error
    mode,         \* the subcommand: "Endpoint", "Cli" or "Local" ("none" before it is read)
    arg,          \* the subcommand's arguments: [msg, round]
    pc,           \* where main() is
    exitBy,       \* how the process ended: "", "return", "error", "signal"
    await,        \* the message whose reply main() awaits (0: none)
    sig,          \* the ctrlc handler: the Kill whose reply it awaits (0: not called)
    db,           \* the sled tree as the process reads it: key -> stored value
    stable,       \* the part of it on stable storage
    pendingFlush, \* spawned flush_async tasks that have not finished
    actor,        \* the DataActor: "none", "running" or "stopped"
    mailbox,      \* its events, oldest first
    msgs,         \* every DbMsg sent to it in this run, in the order enqueued
    replies,      \* the reply to each
    seen,         \* the keys in the tree when the handler of each began
    inflight,     \* the messages whose handler has begun and not replied
    killFlush,    \* the outcome of the flush of the latest Kill handled ("none": no Kill)
    okKill,       \* the latest Kill whose flush succeeded (0: none)
    keeper,       \* the HouseKeeper actor: "none", "running", "stopped"
    listener,     \* the transport listener: "none", "open", "closed"
    exec,         \* the local TraceActor: "none", "Running", "Completed", "Failed", "Stopped"
    execModel,    \* the definition it was started from
    written,      \* the shared counter Arc<AtomicUsize>
    iters         \* iterations the local TraceActor has completed

procVars == <<sent, faulty, mode, arg, pc, exitBy, await, sig>>
storeVars == <<db, stable, pendingFlush>>
actorVars == <<actor, mailbox, msgs, replies, seen, inflight, killFlush, okKill>>
envVars == <<keeper, listener>>
execVars == <<exec, execModel, written, iters>>
vars == <<procVars, storeVars, actorVars, envVars, execVars>>

Ids == 1..Len(msgs)
Replied(i) == replies[i].tag \notin {"None", "Closed"}
Alive == pc # "exit"

\* The empty tree.
EmptyTree == [k \in {} |-> DefaultModel]

\* Mutants: an insert under the first key whatever the key given; a remove
\* that empties the tree.
TreeInsertFirstKey(tree, k, v) == [x \in DOMAIN tree \cup {"a"} |-> IF x = "a" THEN v ELSE tree[x]]
TreeRemoveAll(tree, k) == [x \in {} |-> tree[x]]

\* db.insert(key, value), db.remove(key)
TreeInsert(tree, k, v) == [x \in DOMAIN tree \cup {k} |-> IF x = k THEN v ELSE tree[x]]
TreeRemove(tree, k) == [x \in DOMAIN tree \ {k} |-> tree[x]]

\* The outcomes of one sled read or write; at most MaxFaults of them fail in
\* one run of the process.
StorageOutcomes ==
    IF faulty /\ Cardinality({i \in Ids : replies[i] = ErrIo}) < MaxFaults
    THEN {"ok", "err"}
    ELSE {"ok"}
\* The outcomes of one flush.
FlushOutcomes == {"ok", "err"}

\* --------------------------------------------------------- pure handlers
\* Mutants: a lookup that never (always) finds the key.
ContainsKeyNever(tree, k) == FALSE
ContainsKeyAlways(tree, k) == TRUE

\* db.contains_key(key)
ContainsKey(tree, k) == k \in DOMAIN tree

\* Mutant: an absent key reads as the default definition.
QueryJsonDefault(k, tree, io) ==
    IF io = "err" THEN ErrIo
    ELSE IF k \notin DOMAIN tree THEN GetResult(DefaultModel)
    ELSE IF JsonOk(tree[k]) THEN GetResult(FromSlice(tree[k]))
    ELSE ErrDecode

\* query_json(key, db): db.get, "key {} not set" when absent, from_slice
QueryJson(k, tree, io) ==
    IF io = "err" THEN ErrIo
    ELSE IF k \notin DOMAIN tree THEN ErrNotSet(k)
    ELSE IF JsonOk(tree[k]) THEN GetResult(FromSlice(tree[k]))
    ELSE ErrDecode

\* The keys of the tree in the order db.iter() yields them.
Keys(tree) == SelectSeq(KeyOrder, LAMBDA k : k \in DOMAIN tree)

\* Mutant: a record that does not decode is left out of the list.
RECURSIVE QueryAllFoldSkip(_, _, _)
QueryAllFoldSkip(keys, tree, acc) ==
    IF keys = <<>> THEN acc
    ELSE LET k == Head(keys)
             step == IF JsonOk(tree[k])
                     THEN AllList(Append(acc.list, FromSlice(tree[k])))
                     ELSE acc
         IN QueryAllFoldSkip(Tail(keys), tree, step)

\* DbMsg::QueryAll: the fold over db.iter(); result.and_then keeps the first error.
RECURSIVE QueryAllFold(_, _, _)
QueryAllFold(keys, tree, acc) ==
    IF keys = <<>> THEN acc
    ELSE LET k == Head(keys)
             step == IF acc.tag # "AllList" THEN acc
                     ELSE IF JsonOk(tree[k])
                          THEN AllList(Append(acc.list, FromSlice(tree[k])))
                          ELSE ErrDecode
         IN QueryAllFold(Tail(keys), tree, step)

\* A storage error, when there is one, is the error of the first item.
QueryAll(tree, io) ==
    IF io = "err" /\ DOMAIN tree # {} THEN ErrIo
    ELSE QueryAllFold(Keys(tree), tree, AllList(<<>>))

\* Mutant: an insert that reports a storage error has written the record.
InsertObjDirty(k, m, tree, io) ==
    IF io = "err" THEN [reply |-> ErrIo, tree |-> TreeInsert(tree, k, ToVec(m)), spawned |-> 0]
    ELSE IF k \in DOMAIN tree
    THEN [reply |-> ErrExists(k), tree |-> tree, spawned |-> 0]
    ELSE [reply |-> Success, tree |-> TreeInsert(tree, k, ToVec(m)), spawned |-> 1]

\* insert_obj(key, content, db): [reply, tree, spawned]
InsertObj(k, m, tree, io) ==
    IF io = "err" THEN [reply |-> ErrIo, tree |-> tree, spawned |-> 0]
    ELSE IF ContainsKey(tree, k)
    THEN [reply |-> ErrExists(k), tree |-> tree, spawned |-> 0]
    ELSE [reply |-> Success, tree |-> TreeInsert(tree, k, ToVec(m)), spawned |-> 1]

\* Mutant: Success without the record being removed.
RemoveObjKeep(k, tree, io) == [reply |-> Success, tree |-> tree, spawned |-> 1]

\* DbMsg::Remove, Ok(true) arm: db.remove(name), then spawn(flush_async)
RemoveObj(k, tree, io) ==
    IF io = "err" THEN [reply |-> ErrIo, tree |-> tree, spawned |-> 0]
    ELSE [reply |-> Success, tree |-> TreeRemove(tree, k), spawned |-> 1]


\* ------------------------------------------------------- the store actor
\* Addr::call: the message goes to the end of the mailbox; when the actor has
\* stopped the channel is closed and the call returns an error at once.
Enqueue(m) ==
    /\ msgs' = Append(msgs, m)
    /\ seen' = Append(seen, {})
    /\ IF actor = "running"
       THEN /\ mailbox' = Append(mailbox, Len(msgs) + 1)
            /\ replies' = Append(replies, NoReply)
       ELSE /\ mailbox' = mailbox
            /\ replies' = Append(replies, Closed)

\* Mutant: a handler begins while another has not finished.
CanReceiveAlways == TRUE

\* async fn handle(&mut self, ..): the actor runs one handler at a time.
CanReceive == inflight = {}

\* The next event is a DbMsg of this kind and the actor is free to handle it.
HeadIs(kind) ==
    /\ Alive
    /\ actor = "running"
    /\ CanReceive
    /\ mailbox # <<>>
    /\ Head(mailbox) # StopEvent
    /\ msgs[Head(mailbox)].kind = kind

\* The handler of the head message begins.
Begin(id) ==
    /\ mailbox' = Tail(mailbox)
    /\ seen' = [seen EXCEPT ![id] = DOMAIN db]

\* DbMsg::QueryAll
HandleQueryAll ==
    /\ HeadIs("QueryAll")
    /\ \E io \in StorageOutcomes :
         LET id == Head(mailbox) IN
         /\ Begin(id)
         /\ replies' = [replies EXCEPT ![id] = QueryAll(db, io)]
    /\ UNCHANGED <<procVars, storeVars, envVars, execVars, actor, msgs, inflight, killFlush, okKill>>

\* DbMsg::Get(name)
HandleGet ==
    /\ HeadIs("Get")
    /\ \E io \in StorageOutcomes :
         LET id == Head(mailbox) IN
         /\ Begin(id)
         /\ replies' = [replies EXCEPT ![id] = QueryJson(msgs[id].name, db, io)]
    /\ UNCHANGED <<procVars, storeVars, envVars, execVars, actor, msgs, inflight, killFlush, okKill>>

\* Mutant: Kill without the flush.
SyncFlushSkipped(tree, st, fl) == st

\* self.db.flush(): what is in the tree reaches stable storage, or the flush
\* fails.
SyncFlush(tree, st, fl) == IF fl = "ok" THEN tree ELSE st

\* DbMsg::Kill: self.db.flush() (an error is only logged), _ctx.stop(None), Success
HandleKill ==
    /\ HeadIs("Kill")
    /\ \E fl \in FlushOutcomes :
         LET id == Head(mailbox) IN
         /\ stable' = SyncFlush(db, stable, fl)
         /\ killFlush' = fl
         /\ okKill' = IF fl = "ok" THEN id ELSE okKill
         /\ mailbox' = Append(Tail(mailbox), StopEvent)
         /\ seen' = [seen EXCEPT ![id] = DOMAIN db]
         /\ replies' = [replies EXCEPT ![id] = Success]
    /\ UNCHANGED <<procVars, envVars, execVars, db, pendingFlush, actor, msgs, inflight>>

\* DbMsg::Remove(name): match self.db.contains_key(&name)
HandleRemoveCheck ==
    /\ HeadIs("Remove")
    /\ \E io \in StorageOutcomes :
         LET id == Head(mailbox)
             n == msgs[id].name
         IN
         /\ Begin(id)
         /\ IF io = "err"
            THEN replies' = [replies EXCEPT ![id] = ErrIo] /\ inflight' = inflight
            ELSE IF ~ContainsKey(db, n)
            THEN replies' = [replies EXCEPT ![id] = ErrNotExist(n)] /\ inflight' = inflight
            ELSE replies' = replies /\ inflight' = inflight \cup {id}
    /\ UNCHANGED <<procVars, storeVars, envVars, execVars, actor, msgs, killFlush, okKill>>

\* Mutant: removing a definition stops the execution started from it.
HandleRemoveDeleteStopsExec ==
    /\ Alive
    /\ \E id \in inflight, io \in StorageOutcomes :
         LET r == RemoveObj(msgs[id].name, db, io) IN
         /\ msgs[id].kind = "Remove"
         /\ db' = r.tree
         /\ pendingFlush' = pendingFlush + r.spawned
         /\ replies' = [replies EXCEPT ![id] = r.reply]
         /\ inflight' = inflight \ {id}
         /\ exec' = IF exec = "Running" /\ execModel.name = msgs[id].name
                    THEN "Stopped" ELSE exec
    /\ UNCHANGED <<procVars, envVars, execModel, written, iters, stable, actor, mailbox,
                   msgs, seen, killFlush, okKill>>

\* DbMsg::Remove(name), the Ok(true) arm
HandleRemoveDelete ==
    /\ Alive
    /\ \E id \in inflight, io \in StorageOutcomes :
         LET r == RemoveObj(msgs[id].name, db, io) IN
         /\ msgs[id].kind = "Remove"
         /\ db' = r.tree
         /\ pendingFlush' = pendingFlush + r.spawned
         /\ replies' = [replies EXCEPT ![id] = r.reply]
         /\ inflight' = inflight \ {id}
    /\ UNCHANGED <<procVars, envVars, execVars, stable, actor, mailbox, msgs, seen, killFlush, okKill>>

\* DbMsg::Add(model): match self.db.contains_key(&model.name)
HandleAddCheck ==
    /\ HeadIs("Add")
    /\ \E io \in StorageOutcomes :
         LET id == Head(mailbox)
             n == msgs[id].model.name
         IN
         /\ Begin(id)
         /\ IF io = "err"
            THEN replies' = [replies EXCEPT ![id] = ErrIo] /\ inflight' = inflight
            ELSE IF ContainsKey(db, n)
            THEN replies' = [replies EXCEPT ![id] = ErrExists(n)] /\ inflight' = inflight
            ELSE replies' = replies /\ inflight' = inflight \cup {id}
    /\ UNCHANGED <<procVars, storeVars, envVars, execVars, actor, msgs, killFlush, okKill>>

\* DbMsg::Add(model), the Ok(false) arm: insert_obj(model.name.clone(), model, &self.db)
HandleAddInsert ==
    /\ Alive
    /\ \E id \in inflight, io \in StorageOutcomes :
         LET r == InsertObj(msgs[id].model.name, msgs[id].model, db, io) IN
         /\ msgs[id].kind = "Add"
         /\ db' = r.tree
         /\ pendingFlush' = pendingFlush + r.spawned
         /\ replies' = [replies EXCEPT ![id] = r.reply]
         /\ inflight' = inflight \ {id}
    /\ UNCHANGED <<procVars, envVars, execVars, stable, actor, mailbox, msgs, seen, killFlush, okKill>>

\* The Stop event: the actor's loop ends, the mailbox is dropped and every call
\* still waiting in it returns an error.
ReceiveStop ==
    /\ Alive
    /\ actor = "running"
    /\ CanReceive
    /\ mailbox # <<>>
    /\ Head(mailbox) = StopEvent
    /\ actor' = "stopped"
    /\ mailbox' = <<>>
    /\ replies' = [i \in Ids |->
                     IF \E k \in 1..Len(mailbox) : mailbox[k] = i THEN Closed ELSE replies[i]]
    /\ UNCHANGED <<procVars, storeVars, envVars, execVars, msgs, seen, inflight, killFlush, okKill>>

\* Mutant: a failed flush discards the writes that had not reached stable storage.
FlushAsyncRollback(tree, st, fl) == IF fl = "ok" THEN tree ELSE st

\* The tree the process reads once a flush_async task has finished: the task
\* only moves data to stable storage.
FlushAsyncTree(tree, st, fl) == tree

\* A task spawned by async_std::task::spawn(db.flush_async()) finishes: what is
\* in the tree reaches stable storage, or the flush fails and nobody is told.
FlushAsyncDone ==
    /\ Alive
    /\ pendingFlush > 0
    /\ \E fl \in FlushOutcomes :
         /\ stable' = IF fl = "ok" THEN db ELSE stable
         /\ db' = FlushAsyncTree(db, stable, fl)
    /\ pendingFlush' = pendingFlush - 1
    /\ UNCHANGED <<procVars, envVars, execVars, actorVars>>


\* ------------------------------------------------------------------ main
Modes == {"Endpoint", "Cli", "Local"}

\* No arguments: Endpoint's server address plays no part here.
NoArgs == [msg |-> QueryAllMsg, round |-> 0]

\* The arguments of a subcommand: the request of List, Add, Check or Remove,
\* the name and the round of Local.
Args(m) ==
    IF m = "Cli" THEN [msg : ClientMsgs, round : {0}]
    ELSE IF m = "Local" THEN [msg : {GetMsg(n) : n \in Names}, round : 0..MaxRound]
    ELSE {NoArgs}

\* The state of a process that has just been started over the tree on disk.
Started(tree) ==
    /\ mode = "none"
    /\ arg = NoArgs
    /\ pc = "start"
    /\ exitBy = ""
    /\ await = 0
    /\ sig = 0
    /\ db = tree
    /\ stable = tree
    /\ pendingFlush = 0
    /\ actor = "none"
    /\ mailbox = <<>>
    /\ msgs = <<>>
    /\ replies = <<>>
    /\ seen = <<>>
    /\ inflight = {}
    /\ killFlush = "none"
    /\ okKill = 0
    /\ keeper = "none"
    /\ listener = "none"
    /\ exec = "none"
    /\ execModel = DefaultModel
    /\ written = 0
    /\ iters = 0

Init ==
    /\ sent = 0
    /\ faulty = FALSE
    /\ Started(EmptyTree)

\* The process ends: its tasks and its memory are gone, and with them the part
\* of the tree that had not reached stable storage.
Exit(how) ==
    /\ pc' = "exit"
    /\ exitBy' = how
    /\ await' = 0
    /\ sig' = 0
    /\ db' = stable
    /\ pendingFlush' = 0
    /\ actor' = "none"
    /\ mailbox' = <<>>
    /\ msgs' = <<>>
    /\ replies' = <<>>
    /\ seen' = <<>>
    /\ inflight' = {}
    /\ okKill' = 0
    /\ execModel' = DefaultModel
    /\ written' = 0
    /\ iters' = 0
    /\ arg' = NoArgs
    /\ UNCHANGED <<sent, faulty, mode, stable, killFlush, envVars, exec>>

\* main, lines 34-37: the logger, Config::from_args, database::init (sled::open)
\* and the start of the DataActor; an error of the logger or of the database
\* ends the process.
Start ==
    /\ pc = "start"
    /\ \E ok \in BOOLEAN :
         IF ok
         THEN /\ mode' \in Modes
              /\ arg' \in Args(mode')
              /\ actor' = "running"
              /\ pc' = CASE mode' = "Endpoint" -> "sockets"
                         [] mode' = "Cli" -> "cli"
                         [] OTHER -> "get"
              /\ exitBy' = exitBy
              /\ UNCHANGED <<sent, faulty, await, sig, storeVars, envVars, execVars,
                             mailbox, msgs, replies, seen, inflight, killFlush, okKill>>
         ELSE Exit("error")

\* SubCommand::Endpoint, lines 40-50: the sockets, the SendClient, the
\* HouseKeeper and the ctrlc handler; create_sockets or set_handler failing
\* returns the error from main.
EndpointSetup ==
    /\ pc = "sockets"
    /\ \E ok \in BOOLEAN :
         IF ok
         THEN /\ listener' = "open"
              /\ keeper' = "running"
              /\ pc' = "listen"
              /\ exitBy' = exitBy
              /\ UNCHANGED <<sent, faulty, mode, arg, await, sig, storeVars, actorVars,
                             execVars>>
         ELSE Exit("error")

\* rd.listen(db_actor.clone(), ..): a connection sends a request to the store.
ConnSend ==
    /\ pc = "listen"
    /\ sent < MaxMsgs
    /\ \E m \in ClientMsgs : Enqueue(m)
    /\ sent' = sent + 1
    /\ UNCHANGED <<faulty, mode, arg, pc, exitBy, await, sig, storeVars, envVars,
                   execVars, actor, inflight, killFlush, okKill>>

\* A Start request of a connection for a name the store has returned to a Get:
\* the HouseKeeper creates the execution from the definition of the reply, its
\* counter at `lasting`.  One execution per run of the process is followed.
KeeperStart ==
    /\ pc = "listen"
    /\ keeper = "running"
    /\ exec = "none"
    /\ \E j \in Ids :
         /\ msgs[j].kind = "Get"
         /\ replies[j].tag = "GetResult"
         /\ execModel' = replies[j].model
         /\ written' = replies[j].model.lasting
    /\ exec' = "Running"
    /\ iters' = 0
    /\ UNCHANGED <<procVars, storeVars, actorVars, envVars>>

\* rd.listen(..).await returns.
ListenReturn ==
    /\ pc = "listen"
    /\ listener' = "closed"
    /\ pc' = "stop_keeper"
    /\ UNCHANGED <<sent, faulty, mode, arg, exitBy, await, sig, storeVars, actorVars,
                   execVars, keeper>>

\* keeper.stop(None)?; send_client.stop(None)?;
StopKeeper ==
    /\ pc = "stop_keeper"
    /\ keeper' = "stopped"
    /\ pc' = "kill"
    /\ UNCHANGED <<sent, faulty, mode, arg, exitBy, await, sig, storeVars, actorVars,
                   execVars, listener>>

\* The ctrlc handler runs: block_on(handle.call(DbMsg::Kill)).
Signal ==
    /\ mode = "Endpoint"
    /\ pc \in {"listen", "stop_keeper", "kill", "kill_wait"}
    /\ sig = 0
    /\ Enqueue(KillMsg)
    /\ sig' = Len(msgs) + 1
    /\ UNCHANGED <<sent, faulty, mode, arg, pc, exitBy, await, storeVars, envVars,
                   execVars, actor, inflight, killFlush, okKill>>

\* The ctrlc handler has its reply (or the error of a closed mailbox):
\* std::process::exit(0).
SignalExit ==
    /\ Alive
    /\ sig # 0
    /\ replies[sig].tag # "None"
    /\ Exit("signal")

\* SubCommand::List, Add, Check, Remove: config::handle_* calls the store.
CliSend ==
    /\ pc = "cli"
    /\ Enqueue(arg.msg)
    /\ sent' = IF sent < MaxMsgs THEN sent + 1 ELSE sent
    /\ await' = Len(msgs) + 1
    /\ pc' = "cli_wait"
    /\ UNCHANGED <<faulty, mode, arg, exitBy, sig, storeVars, envVars, execVars,
                   actor, inflight, killFlush, okKill>>

\* .. and has its reply.
CliDone ==
    /\ pc = "cli_wait"
    /\ replies[await].tag # "None"
    /\ pc' = "kill"
    /\ UNCHANGED <<sent, faulty, mode, arg, exitBy, await, sig, storeVars, actorVars,
                   envVars, execVars>>

\* Mutant: the counter starts one above round.
LocalGetOne ==
    /\ pc = "get"
    /\ written' = arg.round + 1
    /\ Enqueue(arg.msg)
    /\ await' = Len(msgs) + 1
    /\ pc' = "get_wait"
    /\ UNCHANGED <<sent, faulty, mode, arg, exitBy, sig, storeVars, envVars,
                   exec, execModel, iters, actor, inflight, killFlush, okKill>>

\* SubCommand::Local: Arc::new(AtomicUsize::new(round)), db_actor.call(Get(name))
LocalGet ==
    /\ pc = "get"
    /\ written' = arg.round
    /\ Enqueue(arg.msg)
    /\ await' = Len(msgs) + 1
    /\ pc' = "get_wait"
    /\ UNCHANGED <<sent, faulty, mode, arg, exitBy, sig, storeVars, envVars,
                   exec, execModel, iters, actor, inflight, killFlush, okKill>>

\* .await??: an error returns from main; GetResult(model) starts the TraceActor
\* from the model of the reply.
LocalGot ==
    /\ pc = "get_wait"
    /\ replies[await].tag # "None"
    /\ IF replies[await].tag = "GetResult"
       THEN /\ exec' = "Running"
            /\ execModel' = replies[await].model
            /\ pc' = "wait"
            /\ exitBy' = exitBy
            /\ UNCHANGED <<sent, faulty, mode, arg, await, sig, storeVars, actorVars,
                           envVars, written, iters>>
       ELSE Exit("error")

\* Mutant: the caller does not wait.
WaitOverAlways == TRUE

\* while written.load(SeqCst) != 0 { spin_loop(); }
WaitOver == written = 0

LocalWait ==
    /\ pc = "wait"
    /\ WaitOver
    /\ pc' = "stop_exec"
    /\ UNCHANGED <<sent, faulty, mode, arg, exitBy, await, sig, storeVars, actorVars,
                   envVars, execVars>>

\* addr.stop(None)?;
LocalStop ==
    /\ pc = "stop_exec"
    /\ exec' = IF exec = "Running" THEN "Stopped" ELSE exec
    /\ pc' = "kill"
    /\ UNCHANGED <<sent, faulty, mode, arg, exitBy, await, sig, storeVars, actorVars,
                   envVars, execModel, written, iters>>

\* db_actor.call(DbMsg::Kill)
SendKill ==
    /\ pc = "kill"
    /\ Enqueue(KillMsg)
    /\ await' = Len(msgs) + 1
    /\ pc' = "kill_wait"
    /\ UNCHANGED <<sent, faulty, mode, arg, exitBy, sig, storeVars, envVars, execVars,
                   actor, inflight, killFlush, okKill>>

\* .await.check_error(); Ok(())
KillDone ==
    /\ pc = "kill_wait"
    /\ replies[await].tag # "None"
    /\ Exit("return")

\* The next start of the program: sled::open recovers what reached stable storage.
Restart ==
    /\ pc = "exit"
    /\ pc' = "start"
    /\ exitBy' = ""
    /\ mode' = "none"
    /\ arg' = NoArgs
    /\ db' = stable
    /\ killFlush' = "none"
    /\ keeper' = "none"
    /\ listener' = "none"
    /\ exec' = "none"
    /\ UNCHANGED <<sent, faulty, await, sig, stable, pendingFlush, actor, mailbox, msgs,
                   replies, seen, inflight, okKill, execModel, written, iters>>

\* ------------------------------------------- the local trace execution
\* One unit of the execution completes: the shared counter is decremented;
\* the execution is Completed when the counter reaches zero or `lasting`
\* units have run.
ExecIterate ==
    /\ Alive
    /\ exec = "Running"
    /\ written > 0
    /\ iters < execModel.lasting
    /\ iters' = iters + 1
    /\ written' = written - 1
    /\ exec' = IF written' = 0 \/ iters' = execModel.lasting THEN "Completed" ELSE "Running"
    /\ UNCHANGED <<procVars, storeVars, actorVars, envVars, execModel>>

\* Spawn failure, abnormal child exit or an I/O error: terminal, no retry.
ExecFail ==
    /\ Alive
    /\ exec = "Running"
    /\ exec' = "Failed"
    /\ UNCHANGED <<procVars, storeVars, actorVars, envVars, execModel, written, iters>>

\* ---------------------------------------------------------- specification
Next ==
    \/ Start
    \/ EndpointSetup
    \/ ConnSend
    \/ KeeperStart
    \/ ListenReturn
    \/ StopKeeper
    \/ Signal
    \/ SignalExit
    \/ CliSend
    \/ CliDone
    \/ LocalGet
    \/ LocalGot
    \/ LocalWait
    \/ LocalStop
    \/ SendKill
    \/ KillDone
    \/ Restart
    \/ HandleQueryAll
    \/ HandleGet
    \/ HandleKill
    \/ HandleRemoveCheck
    \/ HandleRemoveDelete
    \/ HandleAddCheck
    \/ HandleAddInsert
    \/ ReceiveStop
    \/ FlushAsyncDone
    \/ ExecIterate
    \/ ExecFail

Spec == Init /\ [][Next]_vars

\* The executor and the threads of the process run every task that can take a
\* step: the program does not stop while a step is possible.
SpecFair == Init /\ [][Next]_vars /\ WF_vars(Next)

\* ------------------------------------- a catalog with faults to start from
\* A stored value simd_json::from_slice::<TraceModel> rejects: the fields
\* interval and content are missing.
Truncated(n) == [name |-> n, lasting |-> 1]

\* The trees sled::open may find on disk: two records of which the first or
\* the last in key order does not decode.
StartTrees ==
    { [k \in Names |-> IF k = "a" THEN Truncated(k)
                       ELSE ToVec(TraceModel(k, 2, 2, PerfBranch(FreqDefault, "/bin/u", <<>>)))],
      [k \in Names |-> IF k = "b" THEN Truncated(k)
                       ELSE ToVec(TraceModel(k, 1, 1, PerfBranch(FreqMax, "/bin/t", <<>>)))] }

\* The program started over any of these trees, with a sled whose reads and
\* writes may fail.
InitFault ==
    /\ sent = MaxMsgs - FaultMsgs
    /\ faulty = TRUE
    /\ \E t \in StartTrees : Started(t)

SpecFault == InitFault /\ [][Next]_vars


\* ------------------------------------------------ the history of this run
IsAdd(i) == msgs[i].kind = "Add"
IsRemove(i) == msgs[i].kind = "Remove"
IsGet(i) == msgs[i].kind = "Get"
IsQueryAll(i) == msgs[i].kind = "QueryAll"
IsKill(i) == msgs[i].kind = "Kill"
Succeeded(i) == replies[i].tag = "Success"

\* A Remove (an Add) of name n was enqueued after i and before j.
RemoveBetween(n, i, j) == \E k \in Ids : i < k /\ k < j /\ IsRemove(k) /\ msgs[k].name = n
AddBetween(n, i, j) == \E k \in Ids : i < k /\ k < j /\ IsAdd(k) /\ msgs[k].name = n

\* ------------------------------------------------------------------- C1
\* C1 (round trip): an Add of a definition whose name is not in the catalog
\* when its handler begins is answered Success, and every Get of that name
\* handled after it, with no Remove of the name between them, is answered with
\* a definition equal to the one added in name, lasting, interval and content.
C1_RoundTrip ==
    \A i \in Ids :
        (IsAdd(i) /\ Replied(i) /\ msgs[i].model.name \notin seen[i]) =>
            /\ replies[i] = Success
            /\ \A j \in Ids :
                   ( /\ i < j
                     /\ IsGet(j)
                     /\ msgs[j].name = msgs[i].model.name
                     /\ Replied(j)
                     /\ ~RemoveBetween(msgs[i].model.name, i, j) ) =>
                       replies[j] = GetResult(msgs[i].model)

\* An Add of PerfBranch with Frequency::Specific succeeded and a later Get
\* returned the definition.
C1_Witness ==
    \E i, j \in Ids :
        /\ i < j
        /\ IsAdd(i)
        /\ Succeeded(i)
        /\ msgs[i].model.content.variant = "PerfBranch"
        /\ msgs[i].model.content.frequency.variant = "Specific"
        /\ IsGet(j)
        /\ replies[j] = GetResult(msgs[i].model)


\* ------------------------------------------------------------------- C2
\* C2 (uniqueness): an Add whose name is in the catalog when its handler
\* begins is answered "<name> exists"; while no Remove of the name has
\* succeeded since the first successful Add, the record under the name decodes
\* to the definition of that first Add, whatever the later Adds carried; and no
\* QueryAll lists two definitions of one name.
C2_Uniqueness ==
    /\ \A j \in Ids :
           (IsAdd(j) /\ Replied(j) /\ msgs[j].model.name \in seen[j]) =>
               replies[j] = ErrExists(msgs[j].model.name)
    /\ \A i \in Ids :
           ( /\ IsAdd(i)
             /\ Succeeded(i)
             /\ ~\E k \in Ids : k > i /\ IsRemove(k) /\ msgs[k].name = msgs[i].name
                                  /\ (Succeeded(k) \/ k \in inflight) ) =>
               /\ msgs[i].name \in DOMAIN db
               /\ JsonOk(db[msgs[i].name])
               /\ FromSlice(db[msgs[i].name]) = msgs[i].model
    /\ \A q \in Ids :
           (IsQueryAll(q) /\ replies[q].tag = "AllList") =>
               \A x, y \in 1..Len(replies[q].list) :
                   x # y => replies[q].list[x].name # replies[q].list[y].name

\* A second Add of a name, with another lasting, interval and content, was
\* answered "exists" after the first had succeeded.
C2_Witness ==
    \E i, j \in Ids :
        /\ i < j
        /\ IsAdd(i)
        /\ Succeeded(i)
        /\ IsAdd(j)
        /\ msgs[j].name = msgs[i].name
        /\ msgs[j].model.lasting # msgs[i].model.lasting
        /\ msgs[j].model.interval # msgs[i].model.interval
        /\ msgs[j].model.content # msgs[i].model.content
        /\ replies[j] = ErrExists(msgs[i].name)
        /\ FromSlice(db[msgs[i].name]) = msgs[i].model

\* ------------------------------------------------------------------- C3
\* C3 (deletion): a Remove of a name absent when its handler begins is
\* answered "<name> does not exist"; a Remove of a present name is answered
\* Success, and every Get of that name handled after it, with no Add of the
\* name between them, is answered "key <name> not set".
C3_Deletion ==
    \A i \in Ids :
        (IsRemove(i) /\ Replied(i)) =>
            IF msgs[i].name \notin seen[i]
            THEN replies[i] = ErrNotExist(msgs[i].name)
            ELSE /\ replies[i] = Success
                 /\ \A j \in Ids :
                        ( /\ i < j
                          /\ IsGet(j)
                          /\ msgs[j].name = msgs[i].name
                          /\ Replied(j)
                          /\ ~AddBetween(msgs[i].name, i, j) ) =>
                            replies[j] = ErrNotSet(msgs[i].name)

\* A record was added, removed with Success, and a Get then found nothing.
C3_Witness ==
    \E i, j \in Ids :
        /\ i < j
        /\ IsRemove(i)
        /\ msgs[i].name \in seen[i]
        /\ Succeeded(i)
        /\ IsGet(j)
        /\ replies[j] = ErrNotSet(msgs[i].name)

\* ------------------------------------------------------------------- C4
\* The Adds (Removes) among the first k messages that were answered Success.
AddsOk(k) == Cardinality({i \in Ids : i <= k /\ IsAdd(i) /\ Succeeded(i)})
RemovesOk(k) == Cardinality({i \in Ids : i <= k /\ IsRemove(i) /\ Succeeded(i)})

\* The number of records in the catalog when the first handler of this run
\* began: zero for a process started over an empty catalog.
RecordsAtStart == Cardinality(seen[1])

\* C4 (count): every QueryAll returns as many definitions as there were at
\* the start (none, from an empty catalog) plus the Adds answered Success
\* before it minus the Removes answered Success before it; the same holds of
\* what a QueryAll handled now would return.
C4_Count ==
    /\ \A q \in Ids :
           (IsQueryAll(q) /\ Replied(q)) =>
               /\ replies[q].tag = "AllList"
               /\ Len(replies[q].list) = RecordsAtStart + AddsOk(q) - RemovesOk(q)
    /\ (Ids # {} /\ Replied(1) /\ inflight = {}) =>
           Len(QueryAll(db, "ok").list) = RecordsAtStart + AddsOk(Len(msgs)) - RemovesOk(Len(msgs))

\* From an empty catalog: an Add succeeded, a Remove succeeded, and the
\* QueryAll after both lists nothing.
C4_Witness ==
    \E i, j, q \in Ids :
        /\ seen[1] = {}
        /\ i < j
        /\ j < q
        /\ IsAdd(i)
        /\ Succeeded(i)
        /\ IsRemove(j)
        /\ Succeeded(j)
        /\ IsQueryAll(q)
        /\ replies[q] = AllList(<<>>)

\* ------------------------------------------------------------------- C5
\* The handler of message i has begun.
Begun(i) == Replied(i) \/ i \in inflight

\* The keys in the catalog after a handler that found `keys` and gave `reply`.
KeysAfter(keys, m, reply) ==
    IF reply # Success THEN keys
    ELSE IF m.kind = "Add" THEN keys \cup {m.name}
    ELSE IF m.kind = "Remove" THEN keys \ {m.name}
    ELSE keys

\* C5 (one message at a time): at most one handler is between its existence
\* check and its write; a handler begins only when every message enqueued
\* before it has been answered, and finds the catalog exactly as the handler
\* before it left it; an Add is answered Success when its name was absent then
\* and "exists" otherwise, a Remove Success when present and "does not exist"
\* otherwise; so of the Adds of one name only one succeeds until a Remove of
\* it succeeds.
C5_Serialized ==
    /\ Cardinality(inflight) <= 1
    /\ \A i, j \in Ids : (i < j /\ Begun(j)) => Replied(i)
    /\ \A j \in Ids :
           (j > 1 /\ Begun(j)) => seen[j] = KeysAfter(seen[j - 1], msgs[j - 1], replies[j - 1])
    /\ \A i \in Ids :
           (Replied(i) /\ IsAdd(i)) =>
               replies[i] = IF msgs[i].name \in seen[i] THEN ErrExists(msgs[i].name)
                            ELSE Success
    /\ \A i \in Ids :
           (Replied(i) /\ IsRemove(i)) =>
               replies[i] = IF msgs[i].name \in seen[i] THEN Success
                            ELSE ErrNotExist(msgs[i].name)
    /\ \A i, j \in Ids :
           ( /\ i < j
             /\ IsAdd(i)
             /\ IsAdd(j)
             /\ msgs[i].name = msgs[j].name
             /\ Succeeded(i)
             /\ Succeeded(j) ) =>
               \E k \in Ids : /\ i < k
                              /\ k < j
                              /\ IsRemove(k)
                              /\ msgs[k].name = msgs[i].name
                              /\ Succeeded(k)

\* Three Adds of one fresh name were sent at once: the handler of the first is
\* between its check and its write while the other two wait in the mailbox.
C5_Witness ==
    \E i \in inflight :
        /\ IsAdd(i)
        /\ msgs[i].name \notin DOMAIN db
        /\ Len(mailbox) = 2
        /\ \A k \in 1..Len(mailbox) :
               /\ mailbox[k] # StopEvent
               /\ IsAdd(mailbox[k])
               /\ msgs[mailbox[k]].name = msgs[i].name


\* ------------------------------------------------------------------- C6
\* No Remove of the name of message i, enqueued after i, has succeeded or is
\* being handled.
NotRemovedSince(i) ==
    ~\E k \in Ids : /\ k > i
                    /\ IsRemove(k)
                    /\ msgs[k].name = msgs[i].name
                    /\ (Succeeded(k) \/ k \in inflight)

\* The tree holds the definition of the Add i under its name.
Holds(tree, i) ==
    /\ msgs[i].name \in DOMAIN tree
    /\ JsonOk(tree[msgs[i].name])
    /\ FromSlice(tree[msgs[i].name]) = msgs[i].model

\* The process exits in this step.
Exiting == pc # "exit" /\ pc' = "exit"

C7_StoppedAfterKill ==
    \A i, j \in Ids : (IsKill(i) /\ Succeeded(i) /\ i < j) => ~Begun(j)

\* ------------------------------------------------------------------- C8
\* C8 as claimed: a process that exits on the signal has, before it exits,
\* stopped the HouseKeeper, had the store handle Kill, and closed the listener.
\* The ctrlc handler only sends Kill to the store and exits.
C8_OrderlyShutdown ==
    (pc = "exit" /\ exitBy = "signal") =>
        /\ keeper = "stopped"
        /\ killFlush # "none"
        /\ listener = "closed"

\* ------------------------------------------------------------------- C9
\* The local caller is past its wait on the counter.
PastWait == mode = "Local" /\ pc \in {"stop_exec", "kill", "kill_wait"}

\* C9 as claimed: when the local caller is past its wait, the execution has
\* completed exactly `lasting` iterations, for every value of round.
C9_AsClaimed == PastWait => iters = execModel.lasting

\* C9 (local wait), amended: the counter starts at round; the local caller
\* passes its wait only when the counter is zero, the execution having
\* completed exactly round iterations by then (none when round = 0, `lasting`
\* only when round = lasting); and it sends Kill to the store only after it
\* has stopped the execution actor.
C9_LocalWait ==
    /\ PastWait => (written = 0 /\ iters = arg.round)
    /\ (mode = "Local" /\ pc = "wait") => iters + written = arg.round
    /\ (mode = "Local" /\ pc \in {"kill", "kill_wait"}) => exec # "Running"

\* The caller came out of its wait after two iterations of a definition that
\* lasts three.
C9_Witness ==
    /\ PastWait
    /\ arg.round = 2
    /\ iters = 2
    /\ execModel.lasting = 3

\* ------------------------------------------------------------------ C10
\* The successful Adds and Removes of name n enqueued before j.
Mutations(n, j) ==
    {i \in Ids : i < j /\ msgs[i].name = n /\ (IsAdd(i) \/ IsRemove(i)) /\ Succeeded(i)}

Latest(S) == CHOOSE i \in S : \A k \in S : k <= i

\* What a Get of n handled as message j must see: the record of the latest
\* successful Add, nothing after a successful Remove.
Visible(n, j, reply) ==
    Mutations(n, j) # {} =>
        IF IsAdd(Latest(Mutations(n, j)))
        THEN reply = GetResult(msgs[Latest(Mutations(n, j))].model)
        ELSE reply = ErrNotSet(n)

\* Every Get sees the writes answered Success before it.
C10_Visible ==
    /\ \A j \in Ids : (IsGet(j) /\ Replied(j)) => Visible(msgs[j].name, j, replies[j])
    /\ inflight = {} =>
           \A n \in Names : Visible(n, Len(msgs) + 1, QueryJson(n, db, "ok"))

\* A flush task finishes in this step.
FlushStep == pc' # "exit" /\ pendingFlush' = pendingFlush - 1

\* C10 (flush failure isolation): every Get, and a Get handled now, sees the
\* writes answered Success before it, whatever has reached stable storage; and
\* the end of a flush task, failed or not, changes neither the catalog the
\* handlers read nor any reply.
C10_FlushIsolation ==
    /\ []C10_Visible
    /\ [][FlushStep => (db' = db /\ replies' = replies /\ mailbox' = mailbox)]_vars

\* The flush task of a successful Add has ended without the record reaching
\* stable storage, and a Get has returned the record.
C10_Witness ==
    \E i, j \in Ids :
        /\ i < j
        /\ IsAdd(i)
        /\ Succeeded(i)
        /\ pendingFlush = 0
        /\ msgs[i].name \notin DOMAIN stable
        /\ IsGet(j)
        /\ replies[j] = GetResult(msgs[i].model)


\* ------------------------------------------------------------------ C11
\* The handler of message q replies in this step.
Answers(q) ==
    /\ replies[q] = NoReply
    /\ q \in DOMAIN replies'
    /\ replies'[q] \notin {NoReply, Closed}

\* Every definition stored in the tree, once each, in key order.
Decoded(tree) == [i \in 1..Len(Keys(tree)) |-> FromSlice(tree[Keys(tree)[i]])]

\* C11 (QueryAll is all-or-nothing): a QueryAll handled over a catalog in
\* which some record does not decode is answered with an error and no list,
\* wherever that record is in key order; otherwise it is answered with a
\* storage error or with the list of every stored definition, once each, in
\* key order; a list is never a part of the catalog.
C11_AllOrNothing ==
    [][ \A q \in Ids :
          (IsQueryAll(q) /\ Answers(q)) =>
              IF \E k \in DOMAIN db : ~JsonOk(db[k])
              THEN /\ replies'[q] \in {ErrIo, ErrDecode}
                   /\ replies'[q].list = <<>>
              ELSE replies'[q] = ErrIo \/ replies'[q] = AllList(Decoded(db)) ]_vars

\* A QueryAll over a catalog whose first record decodes and whose last does
\* not was answered with the decode error.
C11_Witness ==
    \E q \in Ids :
        /\ IsQueryAll(q)
        /\ replies[q] = ErrDecode
        /\ DOMAIN db = {"a", "b"}
        /\ JsonOk(db["a"])
        /\ ~JsonOk(db["b"])


\* ------------------------------------------------------------------ C12
\* The reply is an error.
Failed(r) == r.tag \notin {"None", "Closed", "Success", "GetResult", "AllList"}

\* The replies message m can get from a store whose catalog is tree, whatever
\* was sent to the store before.
Outcomes(m, tree) ==
    {ErrIo} \cup
    ( IF m.kind = "Get"
      THEN { IF m.name \notin DOMAIN tree THEN ErrNotSet(m.name)
             ELSE IF JsonOk(tree[m.name]) THEN GetResult(FromSlice(tree[m.name]))
             ELSE ErrDecode }
      ELSE IF m.kind = "Add"
      THEN { IF m.name \in DOMAIN tree THEN ErrExists(m.name) ELSE Success }
      ELSE IF m.kind = "Remove"
      THEN { IF m.name \in DOMAIN tree THEN Success ELSE ErrNotExist(m.name) }
      ELSE IF m.kind = "QueryAll"
      THEN { IF \A k \in DOMAIN tree : JsonOk(tree[k]) THEN AllList(Decoded(tree))
             ELSE ErrDecode }
      ELSE {Success} )

\* C12 (error isolation): the step in which a request is answered with an
\* error (an absent name, an existing name, a record that does not decode, a
\* storage error) changes neither the catalog nor what is on stable storage,
\* spawns no flush and leaves the store running with no Stop event in its
\* mailbox; and the reply of every request is one of those its message gets
\* from the catalog as it is when it is answered, whatever requests failed
\* before it.
C12_ErrorIsolation ==
    [][ \A i \in Ids :
          Answers(i) =>
              /\ replies'[i] \in Outcomes(msgs[i], db)
              /\ Failed(replies'[i]) =>
                     /\ db' = db
                     /\ stable' = stable
                     /\ pendingFlush' = pendingFlush
                     /\ actor' = "running"
                     /\ \A k \in 1..Len(mailbox') :
                            mailbox'[k] = StopEvent => \E h \in 1..Len(mailbox) : mailbox[h] = StopEvent ]_vars

\* A Remove failed with a storage error, and the store, still running, has
\* answered the next Remove of the same name Success.
C12_Witness ==
    \E i, k \in Ids :
        /\ k = i + 1
        /\ IsRemove(i)
        /\ replies[i] = ErrIo
        /\ IsRemove(k)
        /\ msgs[k].name = msgs[i].name
        /\ Succeeded(k)
        /\ msgs[i].name \notin DOMAIN db
        /\ actor = "running"


\* ------------------------------------------------------------------ C13
\* A step of the handler of the Remove i: its existence check or its reply.
RemoveStep(i) ==
    /\ IsRemove(i)
    /\ \/ Answers(i)
       \/ i \notin inflight /\ i \in inflight'

\* C13 (removal does not touch a running execution): an execution holds the
\* definition a Get returned; a Remove of that name handled while the
\* execution is running is answered Success and takes the name out of the
\* catalog (short of a storage error), and no step of its handler changes the
\* definition, the counter, the iterations or the lifecycle of the execution.
C13_RemovalFrame ==
    [][ \A i \in Ids :
          (RemoveStep(i) /\ exec = "Running" /\ msgs[i].name = execModel.name) =>
              /\ exec' = exec
              /\ execModel' = execModel
              /\ written' = written
              /\ iters' = iters
              /\ (Answers(i) /\ msgs[i].name \in DOMAIN db) =>
                     \/ replies'[i] = ErrIo
                     \/ replies'[i] = Success /\ msgs[i].name \notin DOMAIN db' ]_vars

\* An execution started by the HouseKeeper is running from a definition whose
\* name a Remove, answered Success, has taken out of the catalog.
C13_Witness ==
    /\ pc = "listen"
    /\ exec = "Running"
    /\ execModel.name \notin DOMAIN db
    /\ \E g, i \in Ids :
           /\ g < i
           /\ IsGet(g)
           /\ replies[g] = GetResult(execModel)
           /\ IsRemove(i)
           /\ msgs[i].name = execModel.name
           /\ Succeeded(i)


\* ------------------------------------------------------------------ C14
\* C14 as claimed: a process that got as far as starting its store and then
\* exits, by whichever path, has had the store handle a Kill.  An error
\* returned from main (create_sockets, the Get of Local) skips the Kill at the
\* end of main.
C14_FlushBeforeExit ==
    (pc = "exit" /\ mode # "none") => killFlush # "none"

\* ------------------------------------------------------------------ C15
\* The local caller has the reply of its Get, and the name is not set.
LocalNotFound ==
    /\ mode = "Local"
    /\ pc = "get_wait"
    /\ replies[await] = ErrNotSet(arg.msg.name)

\* A Local invocation only reads: the catalog is what was on stable storage at
\* its start, and a Get of a name that is not in it is answered "not set".
C15_NotSet ==
    mode = "Local" =>
        /\ db = stable
        /\ (pc = "get_wait" /\ replies[await] # NoReply /\ arg.msg.name \notin DOMAIN db) =>
               replies[await] = ErrNotSet(arg.msg.name)
        /\ (pc = "get_wait" /\ replies[await] # NoReply /\ arg.msg.name \in DOMAIN db) =>
               replies[await].tag = "GetResult"

\* C15 (Local of a name that is not in the catalog): the Get is answered
\* "not set"; from there the only step of the process is the return of that
\* error from main: no execution exists before or after it, the caller is
\* never at the wait on the counter, and neither the catalog nor stable
\* storage changes.
C15_LocalNotFound ==
    /\ []C15_NotSet
    /\ [][ LocalNotFound =>
             /\ pc' = "exit"
             /\ exitBy' = "error"
             /\ exec = "none"
             /\ exec' = "none"
             /\ db' = db
             /\ stable' = stable ]_vars

\* The Get of a Local invocation of a name that is not in the catalog, while
\* another name is, has been answered "not set".
C15_Witness ==
    /\ LocalNotFound
    /\ DOMAIN db # {}
    /\ arg.msg.name \notin DOMAIN db
    /\ exec = "none"


\* ------------------------------------------------------------------ C16
\* C16 as claimed: a local caller waiting on the counter eventually comes out
\* of its wait, stops the execution actor and sends Kill to the store, also
\* when the execution has ended in Failed with the counter above zero.  The
\* wait only reads the counter: once the execution has failed nothing
\* decrements it and the caller spins for ever.
C16_LocalTerminates ==
    (mode = "Local" /\ pc = "wait") ~> (mode = "Local" /\ pc = "kill_wait")


\* ------------------------------------------------------------------ C17
\* A Local invocation with round = 0 that has started its execution actor.
LocalRoundZero ==
    /\ mode = "Local"
    /\ arg.round = 0
    /\ pc \in {"wait", "stop_exec", "kill", "kill_wait"}

\* C17 (Local with round = 0): the counter is zero from the start of the
\* execution, so the caller's wait is over at once; no iteration completes
\* before the caller stops the actor, which it had started, or afterwards.
C17_RoundZero ==
    LocalRoundZero =>
        /\ written = 0
        /\ iters = 0
        /\ WaitOver
        /\ exec \in {"Running", "Failed", "Stopped"}
        /\ pc \in {"kill", "kill_wait"} => exec \in {"Failed", "Stopped"}

\* With round = 0 the caller has stopped the actor of a definition that lasts
\* three iterations, none of which completed.
C17_Witness ==
    /\ LocalRoundZero
    /\ pc = "kill"
    /\ exec = "Stopped"
    /\ execModel.lasting = 3
    /\ iters = 0

\* ------------------------------------------------------------------ C18
\* Every record of the tree decodes to a definition named as its key.
KeyIsName(tree) ==
    \A k \in DOMAIN tree : JsonOk(tree[k]) /\ FromSlice(tree[k]).name = k

\* In the catalog and on stable storage alike.
C18_Keys == KeyIsName(db) /\ KeyIsName(stable)

\* C18 (key equals name): in the catalog and on stable storage every record
\* is stored under the name of its definition, and no step changes the name
\* of a definition that stays in the catalog.
C18_KeyEqualsName ==
    /\ []C18_Keys
    /\ [][ \A k \in DOMAIN db \cap DOMAIN db' :
             FromSlice(db'[k]).name = FromSlice(db[k]).name ]_vars

\* Two Adds of different names were answered Success and a third, of one of
\* these names with another definition, "exists": each record is under its
\* name, with the definition first added.
C18_Witness ==
    \E i, j, k \in Ids :
        /\ i < k
        /\ j < k
        /\ IsAdd(i)
        /\ Succeeded(i)
        /\ IsAdd(j)
        /\ Succeeded(j)
        /\ msgs[i].name # msgs[j].name
        /\ IsAdd(k)
        /\ msgs[k].name = msgs[i].name
        /\ msgs[k].model # msgs[i].model
        /\ replies[k] = ErrExists(msgs[i].name)
        /\ DOMAIN db = {msgs[i].name, msgs[j].name}
        /\ FromSlice(db[msgs[i].name]) = msgs[i].model

\* ------------------------------------------------------------------ C19
\* The two trees agree on every key but k.
SameBut(t1, t2, k) ==
    /\ DOMAIN t1 \ {k} = DOMAIN t2 \ {k}
    /\ \A x \in DOMAIN t1 \ {k} : t1[x] = t2[x]

\* C19 (frame of the store operations): the steps of the handlers of QueryAll
\* and Get, and of a Kill, leave the catalog as it is; so does the existence
\* check of an Add or a Remove and a reply that is not Success; an Add
\* answered Success changes the entry of its name only, which then holds its
\* definition, and a Remove answered Success the entry of its name only,
\* which is then absent.
C19_Frame ==
    [][ \A i \in Ids :
          /\ (i \notin inflight /\ i \in inflight') => db' = db
          /\ Answers(i) =>
               IF replies'[i] = Success /\ IsAdd(i)
               THEN /\ SameBut(db, db', msgs[i].name)
                    /\ msgs[i].name \in DOMAIN db'
                    /\ db'[msgs[i].name] = ToVec(msgs[i].model)
               ELSE IF replies'[i] = Success /\ IsRemove(i)
               THEN /\ SameBut(db, db', msgs[i].name)
                    /\ msgs[i].name \notin DOMAIN db'
               ELSE db' = db ]_vars

\* With both names in the catalog a Remove of one was answered Success and
\* the record of the other is still there.
C19_Witness ==
    \E i, j, k \in Ids :
        /\ i < k
        /\ j < k
        /\ IsAdd(i)
        /\ Succeeded(i)
        /\ IsAdd(j)
        /\ Succeeded(j)
        /\ msgs[i].name # msgs[j].name
        /\ IsRemove(k)
        /\ msgs[k].name = msgs[i].name
        /\ Succeeded(k)
        /\ msgs[j].name \in DOMAIN db
        /\ db[msgs[j].name] = ToVec(msgs[j].model)
        /\ msgs[i].name \notin DOMAIN db

====
